---------------------------- MODULE Spec2Model ----------------------------
(***************************************************************************)
(* Model of pyacmecapture: the orchestrator of pyacmecapture.py (main) and *)
(* the capture threads (IIODeviceCaptureThread) it configures, starts and  *)
(* joins, with the ACME cape (IIOAcmeCape / IIOAcmeProbe) as environment.  *)
(*                                                                         *)
(* A capture thread is identified by its position k in main's `threads`    *)
(* list; its slot is slots[k].  The wall clock is the variable now, read   *)
(* by every time() call and advanced by Tick.                              *)
(***************************************************************************)
EXTENDS Integers, Sequences, FiniteSets, TLC

\* ------------------------------------------------------------------ bounds
\* Largest value of the wall clock (it starts at 1).
MaxTime == 2
\* Largest number of refill/read cycles one thread is followed through.
MaxCycles == 2
\* Largest args.bufsize of the runs with two threads: samples returned by one
\* read of one channel.
BufSize == 2
\* slots of the cape (IIOAcmeCape._slots_count is 8; 2 keeps the runs small).
SlotsCount == 2
\* slots of the cape in the runs of the cape on its own (_slots_count again:
\* a skipped slot, an empty one and a populated one need three).
CapeSlotsCount == 3
\* Largest number of read_capture_buffer("Time") calls one thread makes to the
\* simulated cape.
MaxReads == 2

\* --------------------------------------------------------------- constants
\* _CAPTURED_CHANNELS of pyacmecapture.py.
CAPTURED_CHANNELS == <<"Time", "Vbat", "Ishunt">>

\* CHANNEL_UNITS of iioacmeprobe.py.
CHANNEL_UNITS == [Time |-> "ms", Vbat |-> "mV", Ishunt |-> "mA", Power |-> "mW"]

\* The channel lists a capture thread can be built with (prefixes of the
\* captured channels, the empty list included).
ChannelLists == { SubSeq(CAPTURED_CHANNELS, 1, n) : n \in 0..Len(CAPTURED_CHANNELS) }

\* The values of --slots tried: None (option absent, --count decides), and
\* lists of one or two slot numbers, valid or not, with and without a
\* repeated slot.
None == <<0, 0, 0>>
SlotArgs == {None, <<0>>, <<1>>, <<SlotsCount + 1>>, <<1, 2>>, <<2, 1>>, <<1, 1>>}
\* The values of --count tried when --slots is absent.
CountArgs == {0, 1, 2, SlotsCount + 1}
\* The values of --duration tried (in clock ticks).
DurationArgs == {0, 1}

\* The positions of main's `threads` list (SlotArgs gives at most two).
Threads == {1, 2}

VARIABLES
    \* ---- main (pyacmecapture.py)
    mpc,            \* position of main
    err,            \* main's err
    exitcode,       \* the code given to exit() (1 until then, which is
                    \* also the code of a run ended by an uncaught exception)
    failedAt,       \* history: where main was when it ended ("" until then)
    cfgRet,         \* main's ret: what the last configure_capture returned
    slots,          \* args.slots
    count,          \* args.count
    duration,       \* args.duration
    bufsize,        \* args.bufsize
    nthreads,       \* len(threads)
    idx,            \* index of the loop main is in
    data,           \* main's data: the threads whose _samples it holds
    \* ---- capture threads (iiodevicecapturethread.py)
    channels,       \* _channels (the same list for every thread)
    tpc,            \* position of each thread
    cfgCalls,       \* cape calls made by each thread's configure_capture
    failed,         \* _failed
    samples,        \* _samples
    chIdx,          \* index of the channel the read loop is at
    refill_start_times,
    refill_end_times,
    read_start_times,
    read_end_times,
    timestamp_thread_start,
    elapsed_time,
    thread_execution_time,
    \* ---- environment
    now,            \* the wall clock
    ret,            \* run()'s ret: what the last refill_capture_buffer returned
    okRefills,      \* history: refill_capture_buffer calls that returned True
    readFailed,     \* history: a read_capture_buffer call returned None or False
    signal,         \* what the probes measure during the run
    populated,      \* whether the cape holds a probe at the slot of each thread
    printed,        \* print_runtime_stats calls made on each thread by a caller
    \* ---- the cape (iioacmecape.py)
    info,           \* what the XMLRPC info call answers for each slot
    _slots,         \* _slots: None, or the slot the probe was created for
    find_i,         \* the i of the loop of _find_probes
    called,         \* the last per-slot call made to the cape, with its outcome
    \* ---- the simulated cape (iiofakeacmecape.py)
    _time_start,    \* _time_start
    fpc,            \* position of each thread in read_capture_buffer("Time")
    loaded,         \* the _time_start value each thread has loaded
    handed          \* the Time buffers handed to each thread's reads, in order

mainVars == <<mpc, err, exitcode, failedAt, cfgRet, slots, count, duration,
              bufsize, nthreads, idx, data>>
threadVars == <<tpc, failed, samples, chIdx, refill_start_times,
                refill_end_times, read_start_times, read_end_times,
                timestamp_thread_start, elapsed_time, thread_execution_time,
                ret, okRefills, readFailed>>
capeVars == <<populated, printed, info, _slots, find_i, called, _time_start, fpc, loaded, handed>>
vars == <<mainVars, channels, cfgCalls, threadVars, now, signal, capeVars>>

\* ------------------------------------------------------------ sample store
AllChannels == {"Time", "Vbat", "Ishunt", "Power"}

\* An entry of the _samples dictionary: the key is missing, holds None, or
\* holds the dictionary {"failed", "unit", "samples"}.
NoEntry == [state |-> "missing", failed |-> FALSE, unit |-> "", samples |-> <<>>]
NoneEntry == [state |-> "none", failed |-> FALSE, unit |-> "", samples |-> <<>>]
Entry(f, u, s) == [state |-> "set", failed |-> f, unit |-> u, samples |-> s]

\* _samples before run() fills it (None, or {} when the channel list is empty).
EmptySamples == [meta |-> FALSE, slot |-> 0, ch |-> [c \in AllChannels |-> NoEntry],
                 stats |-> <<>>]

SeqToSet(s) == { s[i] : i \in 1..Len(s) }

\* The measurements tried.  "ramp": every channel tells the buffer positions
\* apart (the timestamps of a slot start at 100 times the slot, the voltage is
\* in whole volts, so that the power is exact).  "probeA", "probeB": a steady
\* 3700 mV at 150 mA, and 5000 mV at 200 mA.  "printed": the timestamps
\* 1_700_000_000_000, 1_700_000_001_000_000, 1_700_000_002_000_000, ... ns;
\* "epoch": 1_700_000_000_000_000, 1_700_000_001_000_000, ... ns.  Timestamps
\* are held in units of 10^6 ns, which every one of these is a multiple of, to
\* fit the model checker's integers (the subtraction main does is the same in
\* any unit).
Signals == {"ramp", "probeA", "probeB", "printed", "epoch"}

\* What the probe hands back for position p of the buffer read in the thread's
\* cycle c.
SampleTag(c, p) == (c - 1) * bufsize + p
ChannelValue(sl, chn, c, p) ==
    CASE chn = "Time" /\ signal = "printed" ->
            IF SampleTag(c, p) = 1 THEN 1700000 ELSE 1700000000 + SampleTag(c, p) - 1
      [] chn = "Time" /\ signal = "epoch" -> 1700000000 + SampleTag(c, p) - 1
      [] chn = "Time" -> 100 * sl + SampleTag(c, p)
      [] chn = "Vbat" /\ signal = "probeA" -> 3700
      [] chn = "Vbat" /\ signal = "probeB" -> 5000
      [] chn = "Vbat" -> 1000 * SampleTag(c, p)
      [] chn = "Ishunt" /\ signal = "probeA" -> 150
      [] chn = "Ishunt" /\ signal = "probeB" -> 200
      [] OTHER -> SampleTag(c, p)

\* IIOAcmeCape.read_capture_buffer(slot, channel), the successful return: the
\* scaled buffer of one channel of the slot's probe, with its unit.
read_capture_buffer(sl, chn, c) ==
    [channel |-> chn, unit |-> CHANNEL_UNITS[chn],
     samples |-> [p \in 1..bufsize |-> ChannelValue(sl, chn, c, p)]]

\* ------------------------------------------------------------ IIOAcmeCape
\* What proxy.info(slot) can answer in _find_probes: the call raises, the slot
\* is empty ('Failed'), the probe type is none of JACK, USB, HE10, the shunt
\* value is missing, or the probe is described in full.
SlotInfos == {"raises", "empty", "unknown", "noshunt", "probe"}

\* The None entry of _slots (a probe is held as the slot it was created for).
NoProbe == 0

\* What one turn of the loop of _find_probes appends to _slots for slot i:
\* None for an empty slot and for an unknown probe type, the probe created for
\* slot i, and nothing at all where the turn ends by "continue" before any
\* append (info raised, shunt not found).
FoundEntry(inf, i) ==
    CASE inf = "empty"   -> <<NoProbe>>
      [] inf = "unknown" -> <<NoProbe>>
      [] inf = "probe"   -> <<i>>
      [] OTHER           -> <<>>

\* One turn of "for i in range(1, self._slots_count + 1)" of _find_probes.
FindProbe ==
    /\ find_i <= CapeSlotsCount
    /\ _slots' = _slots \o FoundEntry(info[find_i], find_i)
    /\ find_i' = find_i + 1
    /\ UNCHANGED <<populated, printed, info, called, _time_start, fpc, loaded, handed>>
    /\ UNCHANGED <<mainVars, channels, cfgCalls, threadVars, now, signal>>

\* probe_is_attached(slot): _slots[slot - 1] is there and is not None.
probe_is_attached(s) == s <= Len(_slots) /\ _slots[s] # NoProbe

\* The per-slot operations of the cape that the capture threads call.
PerSlotOps ==
    {"set_oversampling_ratio", "enable_asynchronous_reads", "enable_capture_channel",
     "allocate_capture_buffer", "refill_capture_buffer", "read_capture_buffer"}

\* What the probe's own method can return.
ProbeAnswers(op) ==
    IF op = "read_capture_buffer" THEN {"buffer", "None"} ELSE {"True", "False"}

\* No per-slot call made yet.
NoCall == [op |-> "", slot |-> 0, ret |-> "", probe |-> NoProbe]

\* A per-slot operation called with slot s (1 or more), the probe's method
\* answering ans if it is reached: "return self._slots[slot - 1].op(...)" in a
\* try block.  Past the end of _slots the subscript raises IndexError, on None
\* the attribute lookup raises AttributeError: both are caught and False is
\* returned, no probe having been reached.  Otherwise the probe held at that
\* position is operated and its answer returned.
PerSlotCall(op, s, ans) ==
    IF s > Len(_slots) \/ _slots[s] = NoProbe
    THEN [op |-> op, slot |-> s, ret |-> "False", probe |-> NoProbe]
    ELSE [op |-> op, slot |-> s, ret |-> ans, probe |-> _slots[s]]

\* A caller makes a per-slot call once init() is over.
CapeOp ==
    /\ find_i > CapeSlotsCount
    /\ \E op \in PerSlotOps, s \in 1..(CapeSlotsCount + 1) :
         \E ans \in ProbeAnswers(op) : called' = PerSlotCall(op, s, ans)
    /\ UNCHANGED <<populated, printed, info, _slots, find_i, _time_start, fpc, loaded, handed>>
    /\ UNCHANGED <<mainVars, channels, cfgCalls, threadVars, now, signal>>

\* -------------------------------------------------------- IIOFakeAcmeCape
\* range(a, b, 1000000), in units of 10^6 ns.
TimeRange(a, b) == [k \in 1..(IF b > a THEN b - a ELSE 0) |-> a + k - 1]

\* read_capture_buffer(slot, "Time") of the simulated cape, called by thread
\* t: the first operand of range() is loaded from the cape's _time_start ...
FakeCall(t) ==
    /\ fpc[t] = "idle"
    /\ Len(handed[t]) < MaxReads
    /\ loaded' = [loaded EXCEPT ![t] = _time_start]
    /\ fpc' = [fpc EXCEPT ![t] = "range"]
    /\ UNCHANGED <<populated, printed, info, _slots, find_i, called, _time_start, handed>>
    /\ UNCHANGED <<mainVars, channels, cfgCalls, threadVars, now, signal>>

\* ... the second operand is computed from _time_start and _samples_count
\* (the buffer size every thread allocated), and the buffer is built ...
FakeRange(t) ==
    /\ fpc[t] = "range"
    /\ handed' = [handed EXCEPT ![t] =
                     Append(@, TimeRange(loaded[t], _time_start + bufsize))]
    /\ fpc' = [fpc EXCEPT ![t] = "add"]
    /\ UNCHANGED <<populated, printed, info, _slots, find_i, called, _time_start, loaded>>
    /\ UNCHANGED <<mainVars, channels, cfgCalls, threadVars, now, signal>>

\* ... "self._time_start += 1000000 * self._samples_count": the attribute is
\* loaded ...
FakeLoad(t) ==
    /\ fpc[t] = "add"
    /\ loaded' = [loaded EXCEPT ![t] = _time_start]
    /\ fpc' = [fpc EXCEPT ![t] = "store"]
    /\ UNCHANGED <<populated, printed, info, _slots, find_i, called, _time_start, handed>>
    /\ UNCHANGED <<mainVars, channels, cfgCalls, threadVars, now, signal>>

\* ... and the sum is stored; the buffer is returned.
FakeStore(t) ==
    /\ fpc[t] = "store"
    /\ _time_start' = loaded[t] + bufsize
    /\ fpc' = [fpc EXCEPT ![t] = "idle"]
    /\ UNCHANGED <<populated, printed, info, _slots, find_i, called, loaded, handed>>
    /\ UNCHANGED <<mainVars, channels, cfgCalls, threadVars, now, signal>>

\* ------------------------------------------------- IIODeviceCaptureThread
\* What the cape answers to the calls of one configure_capture.
CapeAnswers == [ovs : BOOLEAN, async : BOOLEAN,
                en : [SeqToSet(CAPTURED_CHANNELS) -> BOOLEAN], alloc : BOOLEAN]

\* A call of configure_capture to the cape, with what the cape answered.
CapeCall(op, arg, ok) == [op |-> op, arg |-> arg, ok |-> ok]

\* Variant: the loop goes on enabling channels after one enable failed.
RECURSIVE EnableChannels_m(_, _, _)
EnableChannels_m(chs, k, en) ==
    IF k > Len(chs) THEN [calls |-> <<>>, ok |-> TRUE]
    ELSE LET call == CapeCall("enable_capture_channel", chs[k], en[chs[k]])
             rest == EnableChannels_m(chs, k + 1, en)
         IN  [calls |-> <<call>> \o rest.calls, ok |-> en[chs[k]] /\ rest.ok]

\* The "for ch in self._channels" loop of configure_capture from channel k on:
\* the calls made, and whether every enable succeeded.
RECURSIVE EnableChannels(_, _, _)
EnableChannels(chs, k, en) ==
    IF k > Len(chs) THEN [calls |-> <<>>, ok |-> TRUE]
    ELSE LET call == CapeCall("enable_capture_channel", chs[k], en[chs[k]])
         IN  IF en[chs[k]] = FALSE
             THEN [calls |-> <<call>>, ok |-> FALSE]
             ELSE LET rest == EnableChannels(chs, k + 1, en)
                  IN  [calls |-> <<call>> \o rest.calls, ok |-> rest.ok]

\* configure_capture: the cape calls it makes, in order, and what it returns.
configure_capture(chs, ans) ==
    LET c1 == << CapeCall("set_oversampling_ratio", "", ans.ovs) >>
        c2 == c1 \o << CapeCall("enable_asynchronous_reads", "", ans.async) >>
        e  == EnableChannels(chs, 1, ans.en)
        c3 == c2 \o e.calls
        c4 == c3 \o << CapeCall("allocate_capture_buffer", "", ans.alloc) >>
    IN  IF ans.ovs = FALSE THEN [calls |-> c1, ret |-> FALSE]
        ELSE IF ans.async = FALSE THEN [calls |-> c2, ret |-> FALSE]
        ELSE IF ~e.ok THEN [calls |-> c3, ret |-> FALSE]
        ELSE IF ans.alloc = FALSE THEN [calls |-> c4, ret |-> FALSE]
        ELSE [calls |-> c4, ret |-> TRUE]

\* Variant: the read result replaces what the channel held.
StoreSamples_m(entry, s) == Entry(FALSE, s.unit, s.samples)

\* The entry of channel chn after the read result s is stored ("if
\* self._samples[ch] is not None: np.append ... else: a new dictionary").
StoreSamples(entry, s) ==
    IF entry.state = "set"
    THEN [entry EXCEPT !.samples = entry.samples \o s.samples]
    ELSE Entry(FALSE, s.unit, s.samples)

\* The entry of channel chn when the read returned None: s["samples"] raises
\* before anything is appended; on the channel's first read the new dictionary
\* already holds "failed" and nothing else.
StoreNone(entry) ==
    IF entry.state = "set" THEN entry
    ELSE [state |-> "partial", failed |-> FALSE, unit |-> "", samples |-> <<>>]

\* The number of the cycle thread t is in (cycles begun so far).
Cycle(t) == Len(refill_start_times[t])

\* Variant: the loop is left before its first turn.
RunInit_m(t) ==
    /\ tpc[t] = "started"
    /\ failed' = [failed EXCEPT ![t] = FALSE]
    /\ samples' = [samples EXCEPT ![t] =
          [meta  |-> channels # <<>>,
           slot  |-> slots[t],
           ch    |-> [c \in AllChannels |->
                        IF c \in SeqToSet(channels) THEN NoneEntry ELSE NoEntry],
           stats |-> <<>>]]
    /\ refill_start_times' = [refill_start_times EXCEPT ![t] = <<>>]
    /\ refill_end_times' = [refill_end_times EXCEPT ![t] = <<>>]
    /\ read_start_times' = [read_start_times EXCEPT ![t] = <<>>]
    /\ read_end_times' = [read_end_times EXCEPT ![t] = <<>>]
    /\ timestamp_thread_start' = [timestamp_thread_start EXCEPT ![t] = now]
    /\ elapsed_time' = [elapsed_time EXCEPT ![t] = 0]
    /\ tpc' = [tpc EXCEPT ![t] = "exit"]
    /\ UNCHANGED <<chIdx, thread_execution_time, ret, okRefills, readFailed>>
    /\ UNCHANGED <<mainVars, channels, signal, capeVars, cfgCalls, now>>

\* run(), up to the first loop test.
RunInit(t) ==
    /\ tpc[t] = "started"
    /\ failed' = [failed EXCEPT ![t] = FALSE]
    /\ samples' = [samples EXCEPT ![t] =
          [meta  |-> channels # <<>>,
           slot  |-> slots[t],
           ch    |-> [c \in AllChannels |->
                        IF c \in SeqToSet(channels) THEN NoneEntry ELSE NoEntry],
           stats |-> <<>>]]
    /\ refill_start_times' = [refill_start_times EXCEPT ![t] = <<>>]
    /\ refill_end_times' = [refill_end_times EXCEPT ![t] = <<>>]
    /\ read_start_times' = [read_start_times EXCEPT ![t] = <<>>]
    /\ read_end_times' = [read_end_times EXCEPT ![t] = <<>>]
    /\ timestamp_thread_start' = [timestamp_thread_start EXCEPT ![t] = now]
    /\ elapsed_time' = [elapsed_time EXCEPT ![t] = 0]
    /\ tpc' = [tpc EXCEPT ![t] = IF 0 < duration THEN "refill" ELSE "exit"]
    /\ UNCHANGED <<chIdx, thread_execution_time, ret, okRefills, readFailed>>
    /\ UNCHANGED <<mainVars, channels, signal, capeVars, cfgCalls, now>>

\* Variant: the next refill is called while the reads of the cycle are still
\* to be made.
RefillCall_m(t) ==
    /\ tpc[t] \in {"refill", "read"}
    /\ Cycle(t) < MaxCycles
    /\ refill_start_times' = [refill_start_times EXCEPT ![t] = Append(@, now)]
    /\ tpc' = [tpc EXCEPT ![t] = "refilling"]
    /\ UNCHANGED <<failed, samples, chIdx, refill_end_times, read_start_times,
                   read_end_times, timestamp_thread_start, elapsed_time,
                   thread_execution_time, ret, okRefills, readFailed>>
    /\ UNCHANGED <<mainVars, channels, signal, capeVars, cfgCalls, now>>

\* Top of the loop body: the refill start time is taken and
\* refill_capture_buffer is called (it blocks).
RefillCall(t) ==
    /\ tpc[t] = "refill"
    /\ Cycle(t) < MaxCycles
    /\ refill_start_times' = [refill_start_times EXCEPT ![t] = Append(@, now)]
    /\ tpc' = [tpc EXCEPT ![t] = "refilling"]
    /\ UNCHANGED <<failed, samples, chIdx, refill_end_times, read_start_times,
                   read_end_times, timestamp_thread_start, elapsed_time,
                   thread_execution_time, ret, okRefills, readFailed>>
    /\ UNCHANGED <<mainVars, channels, signal, capeVars, cfgCalls, now>>

\* What the cape's refill_capture_buffer(slot) can return: the probe's answer
\* (True, or False when the refill raised), and False alone where _slots holds
\* no probe for the slot.
RefillOutcomes(pop) == IF pop THEN BOOLEAN ELSE {FALSE}

\* What the cape's read_capture_buffer(slot, ch) can return: the probe's answer
\* (the buffer, or None when the read raised), and False alone where _slots
\* holds no probe for the slot.
ReadOutcomes(pop) == IF pop THEN {"buffer", "None"} ELSE {"False"}

\* Variant: the return value of the refill is not looked at.
FlagAfterRefill_m(flag, r) == flag

\* The failure flag after refill_capture_buffer returned ret ("if ret != True").
FlagAfterRefill(flag, r) == IF r # TRUE THEN TRUE ELSE flag

\* Variant: the failure flag is one attribute shared by all the threads.
RefillReturn_m(t) ==
    /\ tpc[t] = "refilling"
    /\ \E r \in RefillOutcomes(populated[t]) :
         /\ ret' = [ret EXCEPT ![t] = r]
         /\ failed' = [u \in Threads |-> FlagAfterRefill(failed[u], r)]
         /\ okRefills' = [okRefills EXCEPT ![t] = IF r THEN @ + 1 ELSE @]
    /\ refill_end_times' = [refill_end_times EXCEPT ![t] = Append(@, now)]
    /\ read_start_times' = [read_start_times EXCEPT ![t] = Append(@, now)]
    /\ chIdx' = [chIdx EXCEPT ![t] = 1]
    /\ tpc' = [tpc EXCEPT ![t] = "read"]
    /\ UNCHANGED <<samples, refill_start_times, read_end_times,
                   timestamp_thread_start, elapsed_time, thread_execution_time,
                   readFailed>>
    /\ UNCHANGED <<mainVars, channels, signal, capeVars, cfgCalls, now>>

\* refill_capture_buffer returns ret: end time, failure flag, read start time.
RefillReturn(t) ==
    /\ tpc[t] = "refilling"
    /\ \E r \in RefillOutcomes(populated[t]) :
         /\ ret' = [ret EXCEPT ![t] = r]
         /\ failed' = [failed EXCEPT ![t] = FlagAfterRefill(@, r)]
         /\ okRefills' = [okRefills EXCEPT ![t] = IF r THEN @ + 1 ELSE @]
    /\ refill_end_times' = [refill_end_times EXCEPT ![t] = Append(@, now)]
    /\ read_start_times' = [read_start_times EXCEPT ![t] = Append(@, now)]
    /\ chIdx' = [chIdx EXCEPT ![t] = 1]
    /\ tpc' = [tpc EXCEPT ![t] = "read"]
    /\ UNCHANGED <<samples, refill_start_times, read_end_times,
                   timestamp_thread_start, elapsed_time, thread_execution_time,
                   readFailed>>
    /\ UNCHANGED <<mainVars, channels, signal, capeVars, cfgCalls, now>>

\* Variant: a read that returned None is skipped and the loop goes on.
RECURSIVE ReadLoop_m(_, _, _, _, _, _, _)
ReadLoop_m(sl, chs, k, c, e, f, got) ==
    IF k > Len(chs) THEN [ch |-> e, failed |-> f, raised |-> FALSE, at |-> k]
    ELSE LET chn == chs[k]
         IN  IF got[chn] = "buffer"
             THEN ReadLoop_m(sl, chs, k + 1, c,
                             [e EXCEPT ![chn] =
                                StoreSamples(e[chn], read_capture_buffer(sl, chn, c))],
                             f, got)
             ELSE ReadLoop_m(sl, chs, k + 1, c, e, TRUE, got)

\* Variant: no outcome of a read sets the failure flag.
FlagAfterRead_m(flag, s) == flag

\* The failure flag after read_capture_buffer returned s ("if s is None").
FlagAfterRead(flag, s) == IF s = "None" THEN TRUE ELSE flag

\* The "for ch in self._channels" loop of run() of the thread of slot sl from
\* channel k on, in cycle c, on the channel entries e with the failure flag f;
\* got[ch] is what the read of ch returns: the buffer, None or False.  After
\* None the flag is set; the subscript of None, or of False, then raises
\* TypeError, which ends the loop and run().
RECURSIVE ReadLoop(_, _, _, _, _, _, _)
ReadLoop(sl, chs, k, c, e, f, got) ==
    IF k > Len(chs) THEN [ch |-> e, failed |-> f, raised |-> FALSE, at |-> k]
    ELSE LET chn == chs[k]
         IN  IF got[chn] = "buffer"
             THEN ReadLoop(sl, chs, k + 1, c,
                           [e EXCEPT ![chn] =
                              StoreSamples(e[chn], read_capture_buffer(sl, chn, c))],
                           f, got)
             ELSE [ch |-> [e EXCEPT ![chn] = StoreNone(e[chn])],
                   failed |-> FlagAfterRead(f, got[chn]),
                   raised |-> TRUE, at |-> k]

\* "Read captured samples": the reads of all the channels of the cycle.
ReadChannels(t) ==
    /\ tpc[t] = "read"
    /\ \E got \in [SeqToSet(channels) -> ReadOutcomes(populated[t])] :
         LET r == ReadLoop(samples[t].slot, channels, 1, Cycle(t), samples[t].ch,
                           failed[t], got)
         IN  /\ samples' = [samples EXCEPT ![t].ch = r.ch]
             /\ failed' = [failed EXCEPT ![t] = r.failed]
             /\ readFailed' = [readFailed EXCEPT ![t] = r.raised]
             /\ chIdx' = [chIdx EXCEPT ![t] = r.at]
             /\ tpc' = [tpc EXCEPT ![t] = IF r.raised THEN "crashed" ELSE "endcycle"]
    /\ UNCHANGED <<refill_start_times, refill_end_times, read_start_times,
                   read_end_times, timestamp_thread_start, elapsed_time,
                   thread_execution_time, ret, okRefills>>
    /\ UNCHANGED <<mainVars, channels, signal, capeVars, cfgCalls, now>>

\* End of the loop body: read end time, elapsed time, and the loop test.
EndCycle(t) ==
    /\ tpc[t] = "endcycle"
    /\ read_end_times' = [read_end_times EXCEPT ![t] = Append(@, now)]
    /\ elapsed_time' = [elapsed_time EXCEPT ![t] = now - timestamp_thread_start[t]]
    /\ tpc' = [tpc EXCEPT ![t] =
                 IF now - timestamp_thread_start[t] < duration THEN "refill" ELSE "exit"]
    /\ UNCHANGED <<failed, samples, chIdx, refill_start_times, refill_end_times,
                   read_start_times, timestamp_thread_start,
                   thread_execution_time, ret, okRefills, readFailed>>
    /\ UNCHANGED <<mainVars, channels, signal, capeVars, cfgCalls, now>>

\* The channels whose "failed" entry run() writes after the loop:
\* self._samples[ch]["failed"] = self._failed, with ch left over from the last
\* for loop, so the last channel of the list only.
FlaggedChannels(chs) == IF chs = <<>> THEN {} ELSE {chs[Len(chs)]}

\* After the loop: execution time, the failed entry, return.  With no channel
\* ch is unbound (NameError); with no cycle run the entry of ch is None
\* (TypeError): both end run() by an exception.
RunExit(t) ==
    /\ tpc[t] = "exit"
    /\ thread_execution_time' =
          [thread_execution_time EXCEPT ![t] = now - timestamp_thread_start[t]]
    /\ IF channels # <<>> /\ samples[t].ch[channels[Len(channels)]].state = "set"
       THEN /\ samples' = [samples EXCEPT ![t].ch =
                   [c \in AllChannels |->
                      IF c \in FlaggedChannels(channels)
                      THEN [samples[t].ch[c] EXCEPT !.failed = failed[t]]
                      ELSE samples[t].ch[c]]]
            /\ tpc' = [tpc EXCEPT ![t] = "done"]
       ELSE /\ tpc' = [tpc EXCEPT ![t] = "crashed"]
            /\ UNCHANGED samples
    /\ UNCHANGED <<failed, chIdx, refill_start_times, refill_end_times,
                   read_start_times, read_end_times, timestamp_thread_start,
                   elapsed_time, ret, okRefills, readFailed>>
    /\ UNCHANGED <<mainVars, channels, signal, capeVars, cfgCalls, now>>

\* A thread between start() and the end of run().
Running(t) == tpc[t] \in {"started", "refill", "refilling", "read", "endcycle", "exit"}
\* run() has ended, by its return or by an exception.
Ended(t) == tpc[t] \in {"done", "crashed"}

\* The wall clock advances (time() is read by the capture threads only).
Tick ==
    /\ now < MaxTime
    /\ \E t \in Threads : Running(t)
    /\ now' = now + 1
    /\ UNCHANGED <<mainVars, channels, signal, capeVars, cfgCalls, threadVars>>

\* ------------------------------------------------------------------- main
\* exit_with_error(err): main ends with the exit code err.
exit_with_error(e) ==
    /\ mpc' = "exit"
    /\ exitcode' = e
    /\ failedAt' = mpc

\* An exception nobody catches ends main (the interpreter's exit code is 1).
MainCrash ==
    /\ mpc' = "crashed"
    /\ exitcode' = 1
    /\ failedAt' = mpc

\* The argument checks: count, slots, duration.
ArgsAccepted ==
    /\ count <= SlotsCount /\ count > 0
    /\ slots # None => \A i \in 1..Len(slots) : slots[i] <= SlotsCount /\ slots[i] > 0
    /\ duration > 0

\* range(1, args.count + 1)
RangeFrom1(n) == [i \in 1..n |-> i]

CheckArgs ==
    /\ mpc = "check_args"
    /\ IF ArgsAccepted
       THEN /\ slots' = IF slots # None THEN slots ELSE RangeFrom1(count)
            /\ count' = IF slots # None THEN Len(slots) ELSE count
            /\ err' = err - 1
            /\ mpc' = "outdir"
            /\ UNCHANGED <<exitcode, failedAt>>
       ELSE /\ exit_with_error(err)
            /\ UNCHANGED <<slots, count, err>>
    /\ UNCHANGED <<cfgRet, duration, bufsize, nthreads, idx, data, channels, signal, capeVars, cfgCalls, threadVars, now>>

\* os.makedirs(outdir): fails, or the directory is there afterwards.
MakeOutdir ==
    /\ mpc = "outdir"
    /\ \E ok \in BOOLEAN :
         IF ok THEN mpc' = "ping" /\ UNCHANGED <<exitcode, failedAt>>
         ELSE exit_with_error(err)
    /\ UNCHANGED <<err, cfgRet, slots, count, duration, bufsize, nthreads, idx, data, channels, signal, capeVars,
                   cfgCalls, threadVars, now>>

\* iio_acme_cape.is_up()
PingCape ==
    /\ mpc = "ping"
    /\ \E up \in BOOLEAN :
         IF up THEN mpc' = "init" /\ err' = err - 1 /\ UNCHANGED <<exitcode, failedAt>>
         ELSE exit_with_error(err) /\ UNCHANGED err
    /\ UNCHANGED <<cfgRet, slots, count, duration, bufsize, nthreads, idx, data, channels, signal, capeVars,
                   cfgCalls, threadVars, now>>

\* iio_acme_cape.init()
InitCape ==
    /\ mpc = "init"
    /\ \E ok \in BOOLEAN :
         IF ok THEN mpc' = "detect" /\ err' = err - 1 /\ UNCHANGED <<exitcode, failedAt>>
         ELSE exit_with_error(err) /\ UNCHANGED err
    /\ UNCHANGED <<cfgRet, slots, count, duration, bufsize, nthreads, idx, data, channels, signal, capeVars,
                   cfgCalls, threadVars, now>>

\* "Check all probes are attached": probe_is_attached of every target slot.
DetectProbes ==
    /\ mpc = "detect"
    /\ \E attached \in [SeqToSet(slots) -> BOOLEAN] :
         IF \A i \in 1..Len(slots) : attached[slots[i]]
         THEN mpc' = "configure" /\ err' = err - 1 /\ idx' = 1 /\ UNCHANGED <<exitcode, failedAt>>
         ELSE exit_with_error(err) /\ UNCHANGED <<err, idx>>
    /\ UNCHANGED <<cfgRet, slots, count, duration, bufsize, nthreads, data, channels, signal, capeVars,
                   cfgCalls, threadVars, now>>

\* Variant: only an exception ends the run, the return value is ignored.
ConfigureFailed_m(raises, r) == raises

\* Whether main gives the run up after the configuration of one thread: an
\* exception in the try block, or "if ret is False".
ConfigureFailed(raises, r) == raises \/ r = FALSE

\* One turn of "Create and configure capture threads", for slots[idx]: the thread
\* is built and configured; a False return or an exception ends the run, else
\* the thread joins the threads list.
ConfigureThread ==
    /\ mpc = "configure"
    /\ idx <= Len(slots)
    /\ \E raises \in BOOLEAN, ans \in CapeAnswers :
         LET r == configure_capture(channels, ans)
         IN  /\ cfgCalls' = IF raises THEN cfgCalls ELSE [cfgCalls EXCEPT ![idx] = r.calls]
             /\ cfgRet' = IF raises THEN cfgRet ELSE r.ret
             /\ IF ConfigureFailed(raises, r.ret)
                THEN /\ exit_with_error(err)
                     /\ UNCHANGED <<err, idx, nthreads, tpc>>
                ELSE /\ nthreads' = nthreads + 1
                     /\ tpc' = [tpc EXCEPT ![idx] = "configured"]
                     /\ idx' = IF idx = Len(slots) THEN 1 ELSE idx + 1
                     /\ mpc' = IF idx = Len(slots) THEN "start" ELSE "configure"
                     /\ err' = IF idx = Len(slots) THEN err - 1 ELSE err
                     /\ UNCHANGED <<exitcode, failedAt>>
    /\ UNCHANGED <<slots, count, duration, bufsize, data, channels, signal, capeVars, now>>
    /\ UNCHANGED <<failed, samples, chIdx, refill_start_times, refill_end_times,
                   read_start_times, read_end_times, timestamp_thread_start,
                   elapsed_time, thread_execution_time, ret, okRefills, readFailed>>

\* "Start capture threads": start() of threads[idx]; an exception ends the run.
StartThread ==
    /\ mpc = "start"
    /\ idx <= nthreads
    /\ \E raises \in BOOLEAN :
         IF raises
         THEN /\ exit_with_error(err)
              /\ UNCHANGED <<err, idx, tpc>>
         ELSE /\ tpc' = [tpc EXCEPT ![idx] = "started"]
              /\ idx' = IF idx = nthreads THEN 1 ELSE idx + 1
              /\ mpc' = IF idx = nthreads THEN "join" ELSE "start"
              /\ err' = IF idx = nthreads THEN err - 1 ELSE err
              /\ UNCHANGED <<exitcode, failedAt>>
    /\ UNCHANGED <<cfgRet, slots, count, duration, bufsize, nthreads, data, channels, signal, capeVars, cfgCalls, now>>
    /\ UNCHANGED <<failed, samples, chIdx, refill_start_times, refill_end_times,
                   read_start_times, read_end_times, timestamp_thread_start,
                   elapsed_time, thread_execution_time, ret, okRefills, readFailed>>

\* Variant: join() returns at once.
join_m(t) == TRUE

\* thread.join() returns: run() of the thread has ended.
join(t) == Ended(t)

\* "Wait for capture threads to complete": join() of threads[idx] returns once
\* its run() has ended.
JoinThread ==
    /\ mpc = "join"
    /\ idx <= nthreads
    /\ join(idx)
    /\ idx' = IF idx = nthreads THEN 1 ELSE idx + 1
    /\ mpc' = IF idx = nthreads THEN "verbose" ELSE "join"
    /\ UNCHANGED <<err, exitcode, failedAt, cfgRet, slots, count, duration, bufsize, nthreads, data,
                   channels, signal, capeVars, cfgCalls, threadVars, now>>

\* "if args.verbose >= 1"
CheckVerbose ==
    /\ mpc = "verbose"
    /\ \E v \in BOOLEAN : mpc' = IF v THEN "stats" ELSE "retrieve"
    /\ UNCHANGED <<err, exitcode, failedAt, cfgRet, slots, count, duration, bufsize, nthreads, idx, data,
                   channels, signal, capeVars, cfgCalls, threadVars, now>>

\* numpy's rule for two one-dimensional arrays of lengths m and n.
Broadcastable(m, n) == m = n \/ m = 1 \/ n = 1

\* Variant: the timestamps are converted to ms as they are.
RelativeMs_m(times, first) == [i \in 1..Len(times) |-> times[i] * 1000]

\* "Make timestamps relative to first one, and convert to ms"
RelativeMs(times, first) == [i \in 1..Len(times) |-> (times[i] - first) * 1000]

\* print_runtime_stats of threads[idx]: the four timing lists are rewritten in
\* place, then the durations are subtracted (numpy raises ValueError when the
\* shapes do not broadcast, which nobody catches).
StatsThread ==
    /\ mpc = "stats"
    /\ idx <= nthreads
    /\ LET t == idx
           rs == refill_start_times[t]
           ds == read_start_times[t]
       IN  IF rs = <<>> \/ ds = <<>>
           THEN /\ MainCrash
                /\ UNCHANGED <<idx, refill_start_times, refill_end_times,
                               read_start_times, read_end_times>>
           ELSE /\ refill_start_times' = [refill_start_times EXCEPT ![t] = RelativeMs(rs, rs[1])]
                /\ refill_end_times' = [refill_end_times EXCEPT ![t] = RelativeMs(@, rs[1])]
                /\ read_start_times' = [read_start_times EXCEPT ![t] = RelativeMs(ds, ds[1])]
                /\ read_end_times' = [read_end_times EXCEPT ![t] = RelativeMs(@, ds[1])]
                /\ IF /\ Broadcastable(Len(refill_end_times[t]), Len(rs))
                      /\ Broadcastable(Len(read_end_times[t]), Len(ds))
                   THEN /\ idx' = IF idx = nthreads THEN 1 ELSE idx + 1
                        /\ mpc' = IF idx = nthreads THEN "retrieve" ELSE "stats"
                        /\ UNCHANGED <<exitcode, failedAt>>
                   ELSE /\ MainCrash
                        /\ UNCHANGED idx
    /\ UNCHANGED <<err, cfgRet, slots, count, duration, bufsize, nthreads, data, channels, signal, capeVars, cfgCalls, now>>
    /\ UNCHANGED <<tpc, failed, samples, chIdx, timestamp_thread_start,
                   elapsed_time, thread_execution_time, ret, okRefills, readFailed>>

\* Variant: every thread hands out the dictionary of the first thread.
get_samples_m(t) == 1

\* get_samples(): the thread's own _samples dictionary (no copy is made; main's
\* data holds the thread whose dictionary it is).
get_samples(t) == t

\* "Retrieve captured data": data gets every thread's dictionary; the trace
\* line reads samples['slot'], which is missing when run() never set it.
Retrieve ==
    /\ mpc = "retrieve"
    /\ IF \A t \in 1..nthreads : samples[t].meta
       THEN /\ data' = [i \in 1..nthreads |-> get_samples(i)]
            /\ mpc' = "process"
            /\ idx' = 1
            /\ UNCHANGED <<exitcode, failedAt>>
       ELSE /\ MainCrash
            /\ UNCHANGED <<data, idx>>
    /\ UNCHANGED <<err, cfgRet, slots, count, duration, bufsize, nthreads, channels, signal, capeVars, cfgCalls,
                   threadVars, now>>

\* ------------------------------------------------------- "Process samples"
RECURSIVE SeqSum(_)
SeqSum(s) == IF s = <<>> THEN 0 ELSE s[1] + SeqSum(Tail(s))
\* np.amin, np.amax of a non-empty array.
SeqMin(s) == CHOOSE x \in SeqToSet(s) : \A y \in SeqToSet(s) : x <= y
SeqMax(s) == CHOOSE x \in SeqToSet(s) : \A y \in SeqToSet(s) : x >= y
\* np.average of a non-empty array, as the fraction sum / length.
SeqAvg(s) == [num |-> SeqSum(s), den |-> Len(s)]

\* Variant: every probe's samples are made relative to the first sample of the
\* probe in slot 1.
NormaliseTime_m(s) == [i \in 1..Len(s) |-> s[i] - ChannelValue(1, "Time", 1, 1)]

\* Variant: the time samples are left as they were read.
NormaliseTime_u(s) == s

\* "Make time samples relative to first sample"
NormaliseTime(s) == [i \in 1..Len(s) |-> s[i] - s[1]]

\* np.multiply(Vbat, Ishunt) / 1000.0, for shapes that broadcast (a length-one
\* array multiplies every element of the other).
PowerSamples(v, c) ==
    LET n == IF Len(v) >= Len(c) THEN Len(v) ELSE Len(c)
        at(s, i) == IF Len(s) = 1 THEN s[1] ELSE s[i]
    IN  [i \in 1..n |-> (at(v, i) * at(c, i)) \div 1000]

\* Variant: min, max, avg of the samples of the last cycle.
ChannelStats_m(s) ==
    LET last == SubSeq(s, Len(s) - bufsize + 1, Len(s))
    IN  [min |-> SeqMin(last), max |-> SeqMax(last), avg |-> SeqAvg(last)]

\* min, max, avg of Vbat, Ishunt and Power.
ChannelStats(s) == [min |-> SeqMin(s), max |-> SeqMax(s), avg |-> SeqAvg(s)]

\* One turn of the processing loop on the dictionary d: the dictionary as it is
\* left, and whether the turn ran to its end (ok) or raised.
ProcessProbe(d) ==
    IF ~d.meta \/ d.ch["Time"].state # "set" \/ d.ch["Time"].samples = <<>>
    THEN [d |-> d, ok |-> FALSE]
    ELSE
    LET d1 == [d EXCEPT !.ch["Time"].samples = NormaliseTime(@)]
        \* data[i]["Power"] = {} and its unit, before np.multiply is called
        d2 == [d1 EXCEPT !.ch["Power"] =
                 [state |-> "partial", failed |-> FALSE, unit |-> "mW", samples |-> <<>>]]
        v  == d.ch["Vbat"]
        c  == d.ch["Ishunt"]
    IN  IF Len(d.ch["Time"].samples) < 2
        THEN [d |-> d1, ok |-> FALSE]      \* np.amin of an empty ediff1d
        \* real_capture_time_ms is 0: the sampling rate cannot be printed
        ELSE IF d1.ch["Time"].samples[Len(d1.ch["Time"].samples)] = 0
        THEN [d |-> d1, ok |-> FALSE]
        ELSE IF \/ v.state # "set" \/ c.state # "set"
                \/ ~Broadcastable(Len(v.samples), Len(c.samples))
        THEN [d |-> d2, ok |-> FALSE]
        ELSE LET pw == PowerSamples(v.samples, c.samples)
             IN  [d  |-> [d2 EXCEPT !.ch["Power"] =
                            [state |-> "derived", failed |-> FALSE, unit |-> "mW",
                             samples |-> pw],
                          !.stats = << [Vbat   |-> ChannelStats(v.samples),
                                        Ishunt |-> ChannelStats(c.samples),
                                        Power  |-> ChannelStats(pw)] >>],
                  ok |-> TRUE]

\* Variant: the product is computed in place, in the Vbat array.
Process_m ==
    /\ mpc = "process"
    /\ idx <= count
    /\ LET r == ProcessProbe(samples[data[idx]])
       IN  /\ samples' = [samples EXCEPT ![data[idx]] =
                 IF r.ok
                 THEN [r.d EXCEPT !.ch["Vbat"].samples = r.d.ch["Power"].samples]
                 ELSE r.d]
           /\ IF r.ok
              THEN /\ idx' = IF idx = count THEN 1 ELSE idx + 1
                   /\ mpc' = IF idx = count THEN "report" ELSE "process"
                   /\ UNCHANGED <<exitcode, failedAt>>
              ELSE /\ MainCrash
                   /\ UNCHANGED idx
    /\ UNCHANGED <<err, cfgRet, slots, count, duration, bufsize, nthreads, data, channels, signal, capeVars, cfgCalls, now>>
    /\ UNCHANGED <<tpc, failed, chIdx, refill_start_times, refill_end_times,
                   read_start_times, read_end_times, timestamp_thread_start,
                   elapsed_time, thread_execution_time, ret, okRefills, readFailed>>

\* "Process samples", turn idx of "for i in range(args.count)".
Process ==
    /\ mpc = "process"
    /\ idx <= count
    /\ LET r == ProcessProbe(samples[data[idx]])
       IN  /\ samples' = [samples EXCEPT ![data[idx]] = r.d]
           /\ IF r.ok
              THEN /\ idx' = IF idx = count THEN 1 ELSE idx + 1
                   /\ mpc' = IF idx = count THEN "report" ELSE "process"
                   /\ UNCHANGED <<exitcode, failedAt>>
              ELSE /\ MainCrash
                   /\ UNCHANGED idx
    /\ UNCHANGED <<err, cfgRet, slots, count, duration, bufsize, nthreads, data, channels, signal, capeVars, cfgCalls, now>>
    /\ UNCHANGED <<tpc, failed, chIdx, refill_start_times, refill_end_times,
                   read_start_times, read_end_times, timestamp_thread_start,
                   elapsed_time, thread_execution_time, ret, okRefills, readFailed>>

\* "Save data to file and display report", the trace files, exit_with_error(0):
\* an output file that cannot be created ends the run with err.
Report ==
    /\ mpc = "report"
    /\ \E written \in BOOLEAN :
         IF written THEN exit_with_error(0) ELSE exit_with_error(err)
    /\ UNCHANGED <<err, cfgRet, slots, count, duration, bufsize, nthreads, idx, data, channels, signal, capeVars,
                   cfgCalls, threadVars, now>>

\* "Parse user arguments"
ParseArgs ==
    /\ mpc = "parse"
    /\ err' = err - 1
    /\ mpc' = "check_args"
    /\ UNCHANGED <<exitcode, failedAt, cfgRet, slots, count, duration, bufsize, nthreads, idx, data,
                   channels, signal, capeVars, cfgCalls, threadVars, now>>

\* ------------------------------------------------------------ specification
InitThreads ==
    /\ tpc = [t \in Threads |-> "none"]
    /\ cfgCalls = [t \in Threads |-> <<>>]
    /\ failed = [t \in Threads |-> FALSE]
    /\ samples = [t \in Threads |-> EmptySamples]
    /\ chIdx = [t \in Threads |-> 1]
    /\ refill_start_times = [t \in Threads |-> <<>>]
    /\ refill_end_times = [t \in Threads |-> <<>>]
    /\ read_start_times = [t \in Threads |-> <<>>]
    /\ read_end_times = [t \in Threads |-> <<>>]
    /\ timestamp_thread_start = [t \in Threads |-> 0]
    /\ elapsed_time = [t \in Threads |-> 0]
    /\ thread_execution_time = [t \in Threads |-> 0]
    /\ ret = [t \in Threads |-> TRUE]
    /\ okRefills = [t \in Threads |-> 0]
    /\ readFailed = [t \in Threads |-> FALSE]

\* A cape whose init() found a probe in every slot, and that nobody calls.
CapeFound ==
    /\ info = [i \in 1..CapeSlotsCount |-> "probe"]
    /\ _slots = [i \in 1..CapeSlotsCount |-> i]
    /\ find_i = CapeSlotsCount + 1
    /\ called = NoCall

\* IIOFakeAcmeCape.__init__: one _time_start for the whole cape, 0.
FakeCapeInit ==
    /\ _time_start = 0
    /\ fpc = [t \in Threads |-> "idle"]
    /\ loaded = [t \in Threads |-> 0]
    /\ handed = [t \in Threads |-> <<>>]

\* The cape of the runs of main: init() is over, every slot main captures on
\* holds its probe, and nothing else calls the cape.
CapeReady ==
    /\ populated = [t \in Threads |-> TRUE]
    /\ printed = [t \in Threads |-> 0]
    /\ CapeFound
    /\ FakeCapeInit

InitMain ==
    /\ mpc = "parse"
    /\ err = -1
    /\ exitcode = 1
    /\ failedAt = ""
    /\ cfgRet = TRUE
    /\ slots \in SlotArgs
    /\ count \in IF slots = None THEN CountArgs ELSE {SlotsCount}
    /\ duration \in DurationArgs
    /\ nthreads = 0
    /\ idx = 1
    /\ data = <<>>
    /\ now = 1

\* main as pyacmecapture.py runs it: every thread captures _CAPTURED_CHANNELS.
Init ==
    /\ InitMain
    /\ InitThreads
    /\ CapeReady
    /\ channels = CAPTURED_CHANNELS
    /\ bufsize = BufSize
    /\ signal = "ramp"

ThreadStep(t) ==
    \/ RunInit(t)
    \/ RefillCall(t)
    \/ RefillReturn(t)
    \/ ReadChannels(t)
    \/ EndCycle(t)
    \/ RunExit(t)

Next ==
    \/ ParseArgs
    \/ CheckArgs
    \/ MakeOutdir
    \/ PingCape
    \/ InitCape
    \/ DetectProbes
    \/ ConfigureThread
    \/ StartThread
    \/ JoinThread
    \/ CheckVerbose
    \/ StatsThread
    \/ Retrieve
    \/ Process
    \/ Report
    \/ \E t \in Threads : ThreadStep(t)
    \/ Tick

Spec == Init /\ [][Next]_vars

\* The capture thread class on its own channel list: a run on the first slot
\* with the thread built on any prefix of the captured channels.
InitAnyChannels ==
    /\ InitMain
    /\ InitThreads
    /\ CapeReady
    /\ slots = None
    /\ count = 1
    /\ channels \in ChannelLists
    /\ bufsize = BufSize
    /\ signal = "ramp"

SpecAnyChannels == InitAnyChannels /\ [][Next]_vars

\* The values of --bufsize tried in the runs on one slot.
BufsizeArgs == 1..(BufSize + 1)

\* A run on the first slot with any buffer size and any of the measurements.
InitAnyBuffer ==
    /\ InitMain
    /\ InitThreads
    /\ CapeReady
    /\ slots = None
    /\ count = 1
    /\ channels = CAPTURED_CHANNELS
    /\ bufsize \in BufsizeArgs
    /\ signal \in Signals

SpecAnyBuffer == InitAnyBuffer /\ [][Next]_vars

\* --------------------------------------------------- the cape on its own
\* The main code parked: the specifications below run one class apart from
\* main, none of whose steps is taken.
MainAside ==
    /\ mpc = "aside"
    /\ err = -1
    /\ exitcode = 1
    /\ failedAt = ""
    /\ cfgRet = TRUE
    /\ slots = <<1, 2>>
    /\ count = SlotsCount
    /\ nthreads = 2
    /\ idx = 1
    /\ data = <<>>
    /\ now = 1
    /\ channels = CAPTURED_CHANNELS
    /\ bufsize = BufSize
    /\ signal = "ramp"

\* IIOAcmeCape.init() on any cape: _slots is empty when _find_probes starts,
\* and every slot answers the info call in one of the five ways.
InitCapeAlone ==
    /\ MainAside
    /\ InitThreads
    /\ duration = 1
    /\ populated = [t \in Threads |-> TRUE]
    /\ printed = [t \in Threads |-> 0]
    /\ info \in [1..CapeSlotsCount -> SlotInfos]
    /\ _slots = <<>>
    /\ find_i = 1
    /\ called = NoCall
    /\ FakeCapeInit

NextCape == FindProbe \/ CapeOp

SpecCape == InitCapeAlone /\ [][NextCape]_vars

\* Threads reading Time from one IIOFakeAcmeCape, every slot's buffer of
\* BufSize samples.
InitFakeCape ==
    /\ MainAside
    /\ InitThreads
    /\ duration = 1
    /\ populated = [t \in Threads |-> TRUE]
    /\ printed = [t \in Threads |-> 0]
    /\ CapeFound
    /\ FakeCapeInit

NextFakeCape ==
    \E t \in Threads : FakeCall(t) \/ FakeRange(t) \/ FakeLoad(t) \/ FakeStore(t)

SpecFakeCape == InitFakeCape /\ [][NextFakeCape]_vars

\* ------------------------------------------- the capture thread on its own
\* print_runtime_stats called on thread t once its run() has returned (a
\* caller may call it again): the four timing lists are rewritten in place.
PrintRuntimeStats(t) ==
    /\ tpc[t] = "done"
    /\ printed[t] < 2
    /\ refill_start_times[t] # <<>>
    /\ read_start_times[t] # <<>>
    /\ LET rs == refill_start_times[t]
           ds == read_start_times[t]
       IN  /\ refill_start_times' = [refill_start_times EXCEPT ![t] = RelativeMs(rs, rs[1])]
           /\ refill_end_times' = [refill_end_times EXCEPT ![t] = RelativeMs(@, rs[1])]
           /\ read_start_times' = [read_start_times EXCEPT ![t] = RelativeMs(ds, ds[1])]
           /\ read_end_times' = [read_end_times EXCEPT ![t] = RelativeMs(@, ds[1])]
    /\ printed' = [printed EXCEPT ![t] = @ + 1]
    /\ UNCHANGED <<populated, info, _slots, find_i, called, _time_start, fpc, loaded, handed>>
    /\ UNCHANGED <<tpc, failed, samples, chIdx, timestamp_thread_start,
                   elapsed_time, thread_execution_time, ret, okRefills, readFailed>>
    /\ UNCHANGED <<mainVars, channels, signal, cfgCalls, now>>

\* Capture threads started on a cape whose _slots may hold no probe for their
\* slot, run to their end, with a caller of print_runtime_stats.
InitThreadAlone ==
    /\ MainAside
    /\ duration \in DurationArgs
    /\ tpc = [t \in Threads |-> "started"]
    /\ cfgCalls = [t \in Threads |-> <<>>]
    /\ failed = [t \in Threads |-> FALSE]
    /\ samples = [t \in Threads |-> EmptySamples]
    /\ chIdx = [t \in Threads |-> 1]
    /\ refill_start_times = [t \in Threads |-> <<>>]
    /\ refill_end_times = [t \in Threads |-> <<>>]
    /\ read_start_times = [t \in Threads |-> <<>>]
    /\ read_end_times = [t \in Threads |-> <<>>]
    /\ timestamp_thread_start = [t \in Threads |-> 0]
    /\ elapsed_time = [t \in Threads |-> 0]
    /\ thread_execution_time = [t \in Threads |-> 0]
    /\ ret = [t \in Threads |-> TRUE]
    /\ okRefills = [t \in Threads |-> 0]
    /\ readFailed = [t \in Threads |-> FALSE]
    /\ populated \in [Threads -> BOOLEAN]
    /\ printed = [t \in Threads |-> 0]
    /\ CapeFound
    /\ FakeCapeInit

NextThreadAlone ==
    \/ \E t \in Threads : ThreadStep(t)
    \/ \E t \in Threads : PrintRuntimeStats(t)
    \/ Tick

SpecThreadAlone == InitThreadAlone /\ [][NextThreadAlone]_vars

\* ------------------------------------------------------------- properties
\* The stages of main after the "join" loop.
PostJoin == {"verbose", "stats", "retrieve", "process", "report"}

\* Thread t has had a refill_capture_buffer call that did not return True.
RefillFailed(t) == okRefills[t] < Len(refill_end_times[t])

\* The samples thread t holds for the k-th channel of its list.
SamplesOf(t, k) == samples[t].ch[channels[k]].samples

\* C1: once configure_capture has returned False or raised for a slot, main
\* has ended with an error code and start() has been called on no thread:
\* every thread is still unbuilt or merely configured.
C1_ConfigureFailureStartsNothing ==
    (cfgRet = FALSE \/ failedAt = "configure") =>
        /\ mpc = "exit"
        /\ exitcode < 0
        /\ \A t \in Threads : tpc[t] \in {"none", "configured"}

\* The second slot's configure_capture returned False after the first slot's
\* thread was configured.
C1_Witness ==
    /\ mpc = "exit"
    /\ cfgRet = FALSE
    /\ tpc[1] = "configured"
    /\ cfgCalls[2] # <<>>
    /\ tpc[2] = "none"

\* C2: when main is at, or has ended in, a stage after the join loop (runtime
\* statistics, retrieval, processing, report), no thread is running and the
\* run() of every started thread has ended.
C2_ProcessingAfterAllRunsEnded ==
    (mpc \in PostJoin \/ failedAt \in PostJoin) =>
        /\ \A t \in Threads : ~Running(t)
        /\ \A t \in 1..nthreads : Ended(t)

\* Main processes the second of two threads' samples.
C2_Witness ==
    /\ mpc = "process"
    /\ nthreads = 2
    /\ idx = 2
    /\ Ended(1) /\ Ended(2)

\* What a thread owns: its position, flag, samples, timing lists and counters.
ThreadState(u) ==
    <<tpc[u], failed[u], samples[u], chIdx[u], refill_start_times[u],
      refill_end_times[u], read_start_times[u], read_end_times[u],
      timestamp_thread_start[u], elapsed_time[u], thread_execution_time[u],
      ret[u], okRefills[u], readFailed[u]>>

\* A step in which thread t meets a failure: its flag is raised, a read of it
\* fails, or its run() ends by an exception.
FailureStep(t) ==
    \/ ~failed[t] /\ failed'[t]
    \/ ~readFailed[t] /\ readFailed'[t]
    \/ tpc[t] # "crashed" /\ tpc'[t] = "crashed"

\* What the other thread's failure must not change for thread u: its flag is
\* raised only by its own failures, only its own read failure ends its run()
\* by an exception, and when its run() returns it has run the full duration
\* and holds one buffer per channel for each of its cycles.
OwnOutcome(u) ==
    /\ failed[u] => (RefillFailed(u) \/ readFailed[u])
    /\ tpc[u] = "crashed" => readFailed[u]
    /\ tpc[u] = "done" =>
          /\ elapsed_time[u] >= duration
          /\ \A k \in 1..Len(channels) :
                Len(SamplesOf(u, k)) = bufsize * Len(read_end_times[u])

\* C3: a failure in one slot's thread changes nothing of any other slot's
\* thread (no step in which a thread fails touches another thread's cycles,
\* samples or failure flag), and the other threads' outcome depends on their
\* own failures only: they still run for the full duration.
C3_FailureStaysInItsSlot ==
    /\ [][\A t \in Threads : FailureStep(t) =>
             \A u \in Threads \ {t} : ThreadState(u)' = ThreadState(u)]_vars
    /\ [](\A t \in Threads : (failed[t] \/ tpc[t] = "crashed") =>
             \A u \in Threads \ {t} : OwnOutcome(u))

\* The first thread's run() was ended by a read failure; the second ran two
\* cycles to the full duration without a failure.
C3_Witness ==
    /\ tpc[1] = "crashed"
    /\ tpc[2] = "done"
    /\ ~failed[2]
    /\ Len(read_end_times[2]) = 2
    /\ elapsed_time[2] >= duration

\* C4: a refill that did not return True sets the failure flag and does not
\* end run(): only a read failure ends run() by an exception, the reads of the
\* cycle are performed, the loop goes on until the elapsed time reaches the
\* duration, and the result carries the flag.
C4_RefillFailureDoesNotAbort ==
    \A t \in Threads :
        /\ RefillFailed(t) => failed[t]
        /\ (tpc[t] = "read" /\ ret[t] = FALSE) => failed[t]
        /\ tpc[t] = "crashed" => readFailed[t]
        /\ (tpc[t] = "endcycle" /\ ret[t] = FALSE) =>
              \A k \in 1..Len(channels) :
                  Len(SamplesOf(t, k)) = bufsize * Len(refill_end_times[t])
        /\ tpc[t] \in {"exit", "done"} => elapsed_time[t] >= duration
        /\ (tpc[t] = "done" /\ RefillFailed(t)) =>
              samples[t].ch[channels[Len(channels)]].failed

\* Both refills of a thread failed, both cycles were read, run() returned.
C4_Witness ==
    \E t \in Threads :
        /\ tpc[t] = "done"
        /\ okRefills[t] = 0
        /\ Len(refill_end_times[t]) = 2
        /\ Len(samples[t].ch["Vbat"].samples) = 2 * bufsize
        /\ samples[t].ch["Ishunt"].failed

\* C5: a read failure does not abort run(): no thread whose read failed has
\* its run() ended by an exception.
C5_ReadFailureDoesNotAbort ==
    \A t \in Threads : readFailed[t] => tpc[t] # "crashed"

\* C6: after run() has returned, the "failed" entry of every captured channel
\* is true exactly when a refill or a read of the thread failed.
C6_FlagOnEveryChannel ==
    \A t \in Threads :
        tpc[t] = "done" =>
            \A k \in 1..Len(channels) :
                samples[t].ch[channels[k]].failed = (RefillFailed(t) \/ readFailed[t])

\* C7: configure_capture on an empty channel list returns failure (the thread
\* is not added to the threads) without calling allocate_capture_buffer.
C7_EmptyChannelListRejected ==
    \A t \in Threads :
        (channels = <<>> /\ cfgCalls[t] # <<>>) =>
            /\ tpc[t] = "none"
            /\ \A i \in 1..Len(cfgCalls[t]) :
                  cfgCalls[t][i].op # "allocate_capture_buffer"

\* The cape calls of a configure_capture on chs that runs to its end.
ConfigureSequence(chs) ==
    <<"set_oversampling_ratio", "enable_asynchronous_reads">>
    \o [k \in 1..Len(chs) |-> "enable_capture_channel"]
    \o <<"allocate_capture_buffer">>

\* C8: configure_capture fails fast: its calls are the leading calls of the
\* full sequence (the channels in their declared order), a call that failed
\* is the last one made, False was returned at once and the thread was not
\* added to the threads.
C8_ConfigureFailsFast ==
    \A t \in Threads :
        \A i \in 1..Len(cfgCalls[t]) :
            /\ i <= Len(ConfigureSequence(channels))
            /\ cfgCalls[t][i].op = ConfigureSequence(channels)[i]
            /\ cfgCalls[t][i].op = "enable_capture_channel" =>
                  cfgCalls[t][i].arg = channels[i - 2]
            /\ cfgCalls[t][i].ok = FALSE =>
                  /\ i = Len(cfgCalls[t])
                  /\ cfgRet = FALSE
                  /\ tpc[t] = "none"

\* The enable of the second channel failed: four calls, no allocation.
C8_Witness ==
    \E t \in Threads :
        /\ Len(cfgCalls[t]) = 4
        /\ cfgCalls[t][4] = CapeCall("enable_capture_channel", "Vbat", FALSE)

\* The buffer position a stored sample of channel chn came from.
TagOf(chn, v) ==
    CASE chn = "Time" -> v % 100
      [] chn = "Vbat" -> v \div 1000
      [] OTHER        -> v

\* Main has begun to rewrite the samples (the Time channel, in place).
Processing == mpc \in {"process", "report"} \/ failedAt \in {"process", "report"}

\* C9: at the end of every cycle, and from then on while run() has not been
\* ended by an exception, all the channels of a thread hold the same number of
\* samples, and the channels were read in the declared order, so the samples
\* at one index come from the same position of the same cycle's buffers.
C9_ChannelsAligned ==
    \A t \in Threads :
        (tpc[t] \in {"endcycle", "refill", "refilling", "read", "exit", "done"}) =>
            \A j, k \in 1..Len(channels) :
                /\ Len(SamplesOf(t, j)) = Len(SamplesOf(t, k))
                /\ ~Processing =>
                      \A i \in 1..Len(SamplesOf(t, j)) :
                          TagOf(channels[j], SamplesOf(t, j)[i])
                              = TagOf(channels[k], SamplesOf(t, k)[i])

\* A thread at the end of its second cycle, with two buffers per channel.
C9_Witness ==
    \E t \in Threads :
        /\ tpc[t] = "endcycle"
        /\ Cycle(t) = 2
        /\ \A k \in 1..Len(channels) : Len(SamplesOf(t, k)) = 2 * bufsize

\* C10 as stated: the sample count of every channel of a result is the buffer
\* size times the number of cycles whose refill succeeded.
C10_FailedRefillCyclesNotCounted ==
    \A t \in Threads :
        tpc[t] = "done" =>
            \A k \in 1..Len(channels) :
                Len(SamplesOf(t, k)) = bufsize * okRefills[t]

\* The cycles in which thread t has read the k-th channel: the cycles it ran
\* to their end and, when a read failure ended run(), the cycle of the failure
\* for the channels read before the failing one.
CyclesRead(t, k) ==
    Len(read_end_times[t]) + (IF tpc[t] = "crashed" /\ k < chIdx[t] THEN 1 ELSE 0)

\* C10 amended: once run() has ended, the sample count of every channel is the
\* buffer size times the number of cycles in which the channel was read,
\* whether the refill of the cycle succeeded or not: the samples read after a
\* failed refill are counted.
C10_SamplesOfEveryReadCycle ==
    \A t \in Threads :
        Ended(t) =>
            \A k \in 1..Len(channels) :
                Len(SamplesOf(t, k)) = bufsize * CyclesRead(t, k)

\* A result of two cycles, one of them with a failed refill, that holds two
\* buffers per channel.
C10_Witness ==
    \E t \in Threads :
        /\ tpc[t] = "done"
        /\ okRefills[t] = 1
        /\ Len(read_end_times[t]) = 2
        /\ \A k \in 1..Len(channels) : Len(SamplesOf(t, k)) = 2 * bufsize

\* The result of thread t carries a true failure flag.
ResultFlagged(t) == \E k \in 1..Len(channels) : samples[t].ch[channels[k]].failed

\* The processing pass has produced the row of thread t's probe: the derived
\* Power and the min, max and avg of Vbat, Ishunt and Power.
HasRow(t) == samples[t].stats # <<>> /\ samples[t].ch["Power"].state = "derived"

\* The processing pass has run to its end.
ProcessingDone == mpc = "report" \/ failedAt = "report"

\* C11: when the result of a probe of the run carries a true failure flag, the
\* processing pass does not stop (main is not ended in it) and, once it is
\* over, every probe of the run has its row.
C11_RowForEveryProbe ==
    (\E t \in 1..nthreads : ResultFlagged(t)) =>
        /\ failedAt # "process"
        /\ ProcessingDone => \A t \in 1..nthreads : HasRow(t)

\* The slot of the i-th result main holds.
ResultSlot(i) == samples[data[i]].slot

\* C12 as stated: the results main holds are one per target slot, in
\* ascending order of the slot number.
C12_ResultsAscendingBySlot ==
    Processing =>
        /\ \A sl \in SeqToSet(slots) :
              Cardinality({i \in 1..Len(data) : ResultSlot(i) = sl}) = 1
        /\ \A i, j \in 1..Len(data) : i < j => ResultSlot(i) < ResultSlot(j)

\* C12 amended: the results main holds are one per entry of the target list,
\* in the order of the list: the i-th result is the one of the i-th target
\* slot (ascending when the list is, as with --count).
C12_ResultsInTargetOrder ==
    Processing =>
        /\ Len(data) = Len(slots)
        /\ \A i \in 1..Len(data) : ResultSlot(i) = slots[i]

\* The results of --slots 2,1: slot 2 first.
C12_Witness ==
    /\ mpc = "process"
    /\ slots = <<2, 1>>
    /\ Len(data) = 2
    /\ ResultSlot(1) = 2
    /\ ResultSlot(2) = 1

\* C13: no two capture threads that run at the same time have the same slot.
C13_NoSlotSharedByRunningThreads ==
    \A t, u \in Threads :
        (t # u /\ Running(t) /\ Running(u)) => slots[t] # slots[u]

\* C14: run() ends only when the time since its start is at least the
\* duration, so from the start of a thread to the return of its join the
\* clock advances by the duration at least.
C14_RunLastsDuration ==
    \A t \in Threads :
        Ended(t) => now - timestamp_thread_start[t] >= duration

\* C15: a started thread leaves its loop by its own elapsed-time test: the
\* run() that has ended has ended by its return, the elapsed time it computed
\* last being at least the duration.
C15_LoopLeftByElapsedTimeTest ==
    \A t \in Threads :
        Ended(t) => (tpc[t] = "done" /\ elapsed_time[t] >= duration)

\* What the probe of thread t handed back as the i-th sample of channel chn.
RawSample(t, chn, i) ==
    ChannelValue(samples[t].slot, chn, ((i - 1) \div bufsize) + 1, ((i - 1) % bufsize) + 1)

\* The Time samples thread t holds.
TimeOf(t) == samples[t].ch["Time"].samples

\* C16: once the processing pass is over every probe of the run has its row,
\* and for every probe that has its row the first Time value is zero and every
\* Time value is the raw value minus the raw first value of the same probe.
C16_TimeRelativeToOwnFirstSample ==
    /\ ProcessingDone => \A t \in 1..nthreads : HasRow(t)
    /\ \A t \in Threads :
          HasRow(t) =>
              /\ TimeOf(t)[1] = 0
              /\ \A i \in 1..Len(TimeOf(t)) :
                    TimeOf(t)[i] = RawSample(t, "Time", i) - RawSample(t, "Time", 1)

\* Two probes in slots 1 and 2, whose raw timestamps differ, both processed.
C16_Witness ==
    /\ mpc = "report"
    /\ slots = <<1, 2>>
    /\ HasRow(1) /\ HasRow(2)
    /\ RawSample(1, "Time", 1) # RawSample(2, "Time", 1)
    /\ TimeOf(2)[1] = 0
    /\ Len(TimeOf(2)) = 2 * bufsize

\* The scenario's raw Time samples as printed, and with the first one in line
\* with the others, in units of 10^6 ns.
PrintedTime == <<1700000, 1700000001, 1700000002>>
EpochTime == <<1700000000, 1700000001, 1700000002>>

\* The Time samples of the probe main is about to process.
TimeInProcess == samples[data[idx]].ch["Time"].samples
\* The Time samples of that probe after the step.
TimeAfterStep == samples'[data[idx]].ch["Time"].samples

\* C17 as stated: the processing step takes the raw Time samples
\* [1_700_000_000_000, 1_700_000_001_000_000, 1_700_000_002_000_000] ns to
\* [0, 1_000_000, 2_000_000] ns.
C17_PrintedScenario ==
    [][(mpc = "process" /\ TimeInProcess = PrintedTime) =>
          TimeAfterStep = <<0, 1, 2>>]_vars

\* C17 amended: the processing step takes the raw Time samples
\* [1_700_000_000_000_000, 1_700_000_001_000_000, 1_700_000_002_000_000] ns
\* to [0, 1_000_000, 2_000_000] ns, and the samples as printed to
\* [0, 1_698_300_001_000_000, 1_698_300_002_000_000] ns.
C17_EpochScenario ==
    [][mpc = "process" =>
          /\ TimeInProcess = EpochTime => TimeAfterStep = <<0, 1, 2>>
          /\ TimeInProcess = PrintedTime =>
                TimeAfterStep = <<0, 1698300001, 1698300002>>]_vars

\* A run that read the three timestamps in one buffer, processed.
C17_Witness ==
    /\ signal = "epoch"
    /\ Len(read_end_times[1]) = 1
    /\ HasRow(1)
    /\ TimeOf(1) = <<0, 1, 2>>

\* The samples thread t holds for the channel chn.
Samples(t, chn) == samples[t].ch[chn].samples

\* C18: for every probe that has its row and every index i of its Power
\* samples, Vbat and Ishunt have a sample at i and Power[i] is
\* Vbat[i] * Ishunt[i] / 1000; 3700 mV at 150 mA give 555 mW and 5000 mV at
\* 200 mA give 1000 mW.
C18_PowerPairedByIndex ==
    \A t \in Threads :
        HasRow(t) =>
            \A i \in 1..Len(Samples(t, "Power")) :
                /\ i <= Len(Samples(t, "Vbat"))
                /\ i <= Len(Samples(t, "Ishunt"))
                /\ Samples(t, "Power")[i] * 1000
                      = Samples(t, "Vbat")[i] * Samples(t, "Ishunt")[i]
                /\ signal = "probeA" => Samples(t, "Power")[i] = 555
                /\ signal = "probeB" => Samples(t, "Power")[i] = 1000

\* C19: for every probe that has its row, Vbat, Ishunt and Power hold the
\* same number of samples.
C19_EqualLengths ==
    \A t \in Threads :
        HasRow(t) =>
            /\ Len(Samples(t, "Vbat")) = Len(Samples(t, "Ishunt"))
            /\ Len(Samples(t, "Ishunt")) = Len(Samples(t, "Power"))

\* The reported statistics of channel chn of thread t.
StatsOf(t, chn) == samples[t].stats[1][chn]

C21_SnapshotImmutable ==
    \A t \in Threads :
        tpc[t] = "done" =>
            /\ samples[t].ch["Power"].state = "missing"
            /\ samples[t].stats = <<>>
            /\ \A k \in 1..Len(channels) :
                  \A i \in 1..Len(SamplesOf(t, k)) :
                      SamplesOf(t, k)[i] = RawSample(t, channels[k], i)

\* The cycles thread t has run to their end.
CompletedCycles(t) == Len(read_end_times[t])

\* Thread t is at a boundary of its loop: at the loop test before a cycle, or
\* past the loop.
AtLoopBoundary(t) == tpc[t] \in {"refill", "exit", "done"}

\* C22: no step makes the sample count of a channel of a thread smaller, and
\* at every boundary of the loop every captured channel holds one buffer of
\* samples for each completed cycle: the count grows by the buffer size with
\* every cycle.
C22_SampleCountGrowsByCycle ==
    /\ [][\A t \in Threads : \A chn \in AllChannels :
             Len(samples'[t].ch[chn].samples) >= Len(samples[t].ch[chn].samples)]_vars
    /\ [](\A t \in Threads :
             AtLoopBoundary(t) =>
                 \A k \in 1..Len(channels) :
                     Len(SamplesOf(t, k)) = bufsize * CompletedCycles(t))

\* A thread with the largest buffer between its first and its second cycle,
\* one buffer held per channel.
C22_Witness ==
    /\ tpc[1] = "refill"
    /\ bufsize = BufSize + 1
    /\ CompletedCycles(1) = 1
    /\ \A k \in 1..Len(channels) : Len(SamplesOf(1, k)) = BufSize + 1

\* The lengths of the four timing lists of thread t: refill start, refill
\* end, read start, read end.
TimingLengths(t) ==
    <<Len(refill_start_times[t]), Len(refill_end_times[t]),
      Len(read_start_times[t]), Len(read_end_times[t])>>

\* C23: at every boundary of a thread's loop (before the first cycle, after
\* each completed cycle) and once the loop has been left, by the return of
\* run() or otherwise, the four timing lists have the same length, the number
\* of completed cycles.
C23_TimingListsPerCompletedCycle ==
    \A t \in Threads :
        (AtLoopBoundary(t) \/ Ended(t)) =>
            \A i \in 1..4 : TimingLengths(t)[i] = CompletedCycles(t)

\* C24: the cycles of a thread are sequential.  While the refill of a cycle is
\* under way every earlier cycle has been run to its end, all its channels
\* read, and no channel of the cycle has been read; when the reads of a cycle
\* are made its refill has returned; while the thread runs, a cycle's refill
\* starts no earlier than the reads of the cycle before ended and returns no
\* later than the reads of its own cycle start.  (That nothing orders the
\* cycles of different threads is what C24_Witness shows.)
C24_CyclesSequential ==
    \A t \in Threads :
        /\ tpc[t] = "refilling" =>
              /\ CompletedCycles(t) = Cycle(t) - 1
              /\ Len(refill_end_times[t]) = Cycle(t) - 1
              /\ \A k \in 1..Len(channels) :
                    Len(SamplesOf(t, k)) = bufsize * (Cycle(t) - 1)
        /\ tpc[t] = "read" =>
              /\ Len(refill_end_times[t]) = Cycle(t)
              /\ Len(read_start_times[t]) = Cycle(t)
              /\ CompletedCycles(t) = Cycle(t) - 1
        /\ Running(t) =>
              /\ \A n \in 1..CompletedCycles(t) :
                    n < Cycle(t) => read_end_times[t][n] <= refill_start_times[t][n + 1]
              /\ \A n \in 1..Len(read_start_times[t]) :
                    /\ refill_start_times[t][n] <= refill_end_times[t][n]
                    /\ refill_end_times[t][n] <= read_start_times[t][n]

\* The first thread's second refill is under way, after a first cycle that
\* took a clock tick, while the second thread has not begun its first cycle.
C24_Witness ==
    /\ tpc[1] = "refilling"
    /\ Cycle(1) = 2
    /\ refill_start_times[1][1] < refill_start_times[1][2]
    /\ tpc[2] = "refill"
    /\ Cycle(2) = 0

\* np.append(s, ...) gives u: u begins with the elements of s, in their order.
IsPrefix(s, u) == Len(s) <= Len(u) /\ SubSeq(u, 1, Len(s)) = s

\* C25: while a thread is between its start and the end of its run(), a step
\* changes the samples of one of its channels only by putting samples after
\* those it holds (the samples of the earlier cycles stay as they are, where
\* they are), and only the step of the thread's own loop that reads the
\* channels of a cycle does so: main and the other threads do not take part.
C25_OnlyOwnLoopAppends ==
    [][\A t \in Threads :
          Running(t) =>
              \A chn \in AllChannels :
                  /\ IsPrefix(samples[t].ch[chn].samples, samples'[t].ch[chn].samples)
                  /\ samples'[t].ch[chn].samples # samples[t].ch[chn].samples =>
                        /\ tpc[t] = "read"
                        /\ tpc'[t] \in {"endcycle", "crashed"}
                        /\ mainVars' = mainVars
                        /\ \A u \in Threads \ {t} : ThreadState(u)' = ThreadState(u)]_vars

\* The first thread has appended the buffers of its second cycle to those of
\* its first, which are as they were read, while the second thread runs and
\* main waits in join().
C25_Witness ==
    /\ mpc = "join"
    /\ tpc[1] = "endcycle"
    /\ Cycle(1) = 2
    /\ Running(2)
    /\ \A k \in 1..Len(channels) :
          /\ Len(SamplesOf(1, k)) = 2 * bufsize
          /\ SamplesOf(1, k)[1] = RawSample(1, channels[k], 1)

\* The timestamps of the list l on the time scale that starts at first, in ms.
Since(l, first) == [i \in 1..Len(l) |-> (l[i] - first) * 1000]

\* C26 as stated: print_runtime_stats leaves each of the four timing lists
\* relative to the first timestamp of that list, so that each list that is
\* not empty begins with zero.
C26_EachRelativeToOwnFirst ==
    [][(mpc = "stats" /\ refill_start_times[idx] # <<>>) =>
          /\ refill_start_times'[idx] = Since(refill_start_times[idx], refill_start_times[idx][1])
          /\ refill_end_times'[idx] = Since(refill_end_times[idx], refill_end_times[idx][1])
          /\ read_start_times'[idx] = Since(read_start_times[idx], read_start_times[idx][1])
          /\ read_end_times[idx] # <<>> =>
                read_end_times'[idx] = Since(read_end_times[idx], read_end_times[idx][1])
          /\ \A l \in {refill_start_times', refill_end_times',
                       read_start_times', read_end_times'} :
                l[idx] # <<>> => l[idx][1] = 0]_vars

\* C26 amended: print_runtime_stats leaves the refill start and the refill
\* end times relative to the first refill start time, and the read start and
\* the read end times relative to the first read start time, in ms: the
\* refill start and the read start lists begin with zero, the refill end and
\* the read end lists with the duration of the first refill and of the first
\* read.
C26_RelativeToFirstStart ==
    [][(mpc = "stats" /\ refill_start_times[idx] # <<>>) =>
          /\ refill_start_times'[idx] = Since(refill_start_times[idx], refill_start_times[idx][1])
          /\ refill_end_times'[idx] = Since(refill_end_times[idx], refill_start_times[idx][1])
          /\ read_start_times'[idx] = Since(read_start_times[idx], read_start_times[idx][1])
          /\ read_end_times'[idx] = Since(read_end_times[idx], read_start_times[idx][1])
          /\ refill_start_times'[idx][1] = 0
          /\ read_start_times'[idx][1] = 0]_vars

\* The timing lists of the first thread after print_runtime_stats, when the
\* first refill took one clock tick: the refill end list begins with 1000.
C26_Witness ==
    /\ mpc \in {"stats", "retrieve"}
    /\ refill_start_times[1] = <<0>>
    /\ refill_end_times[1] = <<1000>>
    /\ read_start_times[1] = <<0>>
    /\ read_end_times[1] = <<0>>

\* The four timing lists of thread t.
TimingLists(t) ==
    <<refill_start_times[t], refill_end_times[t], read_start_times[t], read_end_times[t]>>

\* C27: print_runtime_stats is called only when the run() of every thread has
\* ended (main is past the join of all of them), and the timing lists of a
\* thread change in two ways only: the thread, while it runs, appends the
\* clock's time to a list, and print_runtime_stats of the thread rewrites them
\* when no thread runs any more.
C27_StatsAfterCapture ==
    /\ []((mpc = "stats" \/ failedAt = "stats") =>
             /\ \A t \in Threads : ~Running(t)
             /\ \A t \in 1..nthreads : Ended(t))
    /\ [][\A t \in Threads : \A i \in 1..4 :
             \/ TimingLists(t)'[i] = TimingLists(t)[i]
             \/ Running(t) /\ TimingLists(t)'[i] = Append(TimingLists(t)[i], now)
             \/ /\ mpc = "stats"
                /\ idx = t
                /\ \A u \in Threads : ~Running(u)]_vars

\* print_runtime_stats of the first of two threads has rewritten its lists of
\* two cycles, and the second thread's is due: both run() have ended.
C27_Witness ==
    /\ mpc = "stats"
    /\ nthreads = 2
    /\ idx = 2
    /\ refill_start_times[1] = <<0, 1000>>
    /\ refill_start_times[2] # <<>>
    /\ refill_start_times[2][1] > 0
    /\ Ended(1) /\ Ended(2)

\* The Vbat and Ishunt samples thread t holds differ in number.
LengthsDiffer(t) ==
    /\ samples[t].ch["Vbat"].state = "set"
    /\ samples[t].ch["Ishunt"].state = "set"
    /\ Len(Samples(t, "Vbat")) # Len(Samples(t, "Ishunt"))

\* C28: when the Vbat and the Ishunt samples of a probe of the run differ in
\* number, whatever the two numbers, the processing pass does not run to its
\* end and the probe gets no Power samples and no statistics.
C28_MismatchedLengthsFatal ==
    \A t \in 1..nthreads :
        LengthsDiffer(t) =>
            /\ ~ProcessingDone
            /\ Samples(t, "Power") = <<>>
            /\ samples[t].stats = <<>>

\* C29: a turn of the processing pass leaves, for every captured channel of
\* every probe, the unit and the "failed" entry as they were, and the samples
\* too unless the channel is Time; it leaves the threads' failure flags and
\* the dictionaries of the other probes untouched.  So every probe that has
\* its row still holds the units of its channels and the Vbat and Ishunt
\* values read from the probe.
C29_ProcessingFrame ==
    /\ [][mpc = "process" =>
             /\ failed' = failed
             /\ \A t \in Threads \ {data[idx]} : samples'[t] = samples[t]
             /\ \A t \in Threads :
                   /\ samples'[t].slot = samples[t].slot
                   /\ \A chn \in SeqToSet(channels) :
                         /\ samples'[t].ch[chn].unit = samples[t].ch[chn].unit
                         /\ samples'[t].ch[chn].failed = samples[t].ch[chn].failed
                         /\ samples'[t].ch[chn].state = samples[t].ch[chn].state
                         /\ chn # "Time" =>
                               samples'[t].ch[chn].samples = samples[t].ch[chn].samples]_vars
    /\ [](\A t \in Threads :
             HasRow(t) =>
                 \A chn \in SeqToSet(channels) :
                     /\ samples[t].ch[chn].unit = CHANNEL_UNITS[chn]
                     /\ chn # "Time" =>
                           \A i \in 1..Len(Samples(t, chn)) :
                               Samples(t, chn)[i] = RawSample(t, chn, i))

\* The processed result of a run with a failed refill: the flag, the units
\* and the Vbat and Ishunt values are those run() left, the Time samples
\* start at zero and the Power channel is there.
C29_Witness ==
    /\ mpc = "report"
    /\ tpc[1] = "done"
    /\ RefillFailed(1)
    /\ HasRow(1)
    /\ samples[1].ch["Ishunt"].failed
    /\ samples[1].ch["Ishunt"].unit = "mA"
    /\ Samples(1, "Vbat")[2] = RawSample(1, "Vbat", 2)
    /\ TimeOf(1)[1] = 0
    /\ TimeOf(1)[2] # RawSample(1, "Time", 2)

\* main has ended: by exit(), or by an exception nobody caught.
MainEnded == mpc \in {"exit", "crashed"}

\* C30: when main has ended its exit code is 0 or negative, and it is 0 only
\* if every stage succeeded: main ended in the report stage, a thread was
\* configured and started for every target slot, the run() of every thread
\* returned, and every probe has its row.
C30_ExitCodeTellsSuccess ==
    MainEnded =>
        /\ exitcode <= 0
        /\ exitcode = 0 =>
              /\ failedAt = "report"
              /\ nthreads = Len(slots)
              /\ \A t \in 1..nthreads : tpc[t] = "done" /\ HasRow(t)

\* ---------------------------------------------------------------- the cape
\* _find_probes has gone through all the slots.
FindDone == find_i > CapeSlotsCount

\* C36: after _find_probes every entry _slots[s-1] that exists is None or the
\* probe discovered for slot s, whatever the slots answered to the info call;
\* so a per-slot operation called for slot s reaches no probe but the one of
\* slot s, and probe_is_attached(s) tells whether slot s itself holds a probe.
C36_SlotsAlignedWithSlotNumbers ==
    FindDone =>
        /\ \A s \in 1..Len(_slots) : _slots[s] \in {NoProbe, s}
        /\ called.probe \in {NoProbe, called.slot}
        /\ \A s \in 1..CapeSlotsCount : probe_is_attached(s) => info[s] = "probe"

\* C31: a per-slot operation called with a slot that holds no discovered probe
\* (empty, not usable, or past the last slot of the cape) has returned False
\* and has operated no probe.
C31_UnpopulatedSlotReturnsFalse ==
    (called.op # "" /\ (called.slot > CapeSlotsCount \/ info[called.slot] # "probe")) =>
        /\ called.ret = "False"
        /\ called.probe = NoProbe

\* No turn of the loop of _find_probes ends before its append.
NoSlotSkipped == \A s \in 1..CapeSlotsCount : info[s] \notin {"raises", "noshunt"}

\* The two properties of the cape on the capes where no slot is skipped.
SlotsAlignedUnlessSkipped ==
    NoSlotSkipped => (C36_SlotsAlignedWithSlotNumbers /\ C31_UnpopulatedSlotReturnsFalse)

\* ------------------------------------------------------ the simulated cape
\* The Time samples a slot's thread has accumulated: the buffers of its reads,
\* one after the other ("np.append" in run()).
RECURSIVE Accumulated(_)
Accumulated(bufs) == IF bufs = <<>> THEN <<>> ELSE bufs[1] \o Accumulated(Tail(bufs))

StrictlyIncreasing(s) == \A i \in 1..(Len(s) - 1) : s[i] < s[i + 1]

\* The reads of Time made so far: the thread and the rank of the read.
TimeReads == {r \in Threads \X (1..MaxReads) : r[2] <= Len(handed[r[1]])}

\* C35: with one simulated cape shared by the threads, whatever the
\* interleaving of their read_capture_buffer calls, the Time sequence each slot
\* accumulates is strictly increasing and no Time value has been handed to two
\* different reads.
C35_FakeTimeUniqueAndIncreasing ==
    /\ \A t \in Threads : StrictlyIncreasing(Accumulated(handed[t]))
    /\ \A r, q \in TimeReads :
          r # q => SeqToSet(handed[r[1]][r[2]]) \cap SeqToSet(handed[q[1]][q[2]]) = {}


C37_PrintRuntimeStatsIdempotent ==
    [][\A t \in Threads :
          (PrintRuntimeStats(t) /\ printed[t] >= 1) => TimingLists(t)' = TimingLists(t)]_vars

\* ------------------------------------------------------ cycles of a thread
\* The lookup data[i]["Time"]["samples"][0] of the processing pass on the
\* dictionary of thread t finds a value.
FirstTimeSampleDefined(t) ==
    /\ samples[t].ch["Time"].state = "set"
    /\ samples[t].ch["Time"].samples # <<>>

\* C33: with a duration above 0 a thread that leaves its loop has run at least
\* one full refill/read cycle; when run() has returned every captured channel
\* holds a non-empty sample sequence and the result holds the 'slot',
\* 'channels' and 'duration' entries, and the processing pass finds the first
\* Time sample of such a thread.
C33_AtLeastOneCycle ==
    duration > 0 =>
        \A t \in Threads :
            /\ tpc[t] \in {"exit", "done"} => CompletedCycles(t) >= 1
            /\ tpc[t] = "done" =>
                  /\ samples[t].meta
                  /\ \A k \in 1..Len(channels) :
                        /\ samples[t].ch[channels[k]].state = "set"
                        /\ SamplesOf(t, k) # <<>>
            /\ (tpc[t] = "done" /\ mpc = "process" /\ t \in SeqToSet(data)) =>
                  FirstTimeSampleDefined(t)

\* The thread of slot 1 has returned from run() after one cycle and main is
\* in the processing pass.
C33_Witness ==
    /\ duration > 0
    /\ tpc[1] = "done"
    /\ CompletedCycles(1) = 1
    /\ mpc = "process"
    /\ data = <<1>>
    /\ FirstTimeSampleDefined(1)

\* Thread t is inside a cycle of its loop.
InCycle(t) == tpc[t] \in {"refilling", "read", "endcycle"}

\* The loop of thread t stopped where the claim says: every cycle begun was
\* run to its end, there is at least one, and the elapsed time measured at the
\* end of the last one (the first to reach the duration, a cycle being begun
\* only below it) is at or past the duration.
StoppedAtDuration(t) ==
    /\ CompletedCycles(t) >= 1
    /\ Cycle(t) = CompletedCycles(t)
    /\ elapsed_time[t] >= duration

\* C34: the elapsed time is tested at the top of each cycle only.  A cycle is
\* begun (its refill issued) only while the elapsed time measured at the end
\* of the previous cycle is below the duration, and a thread whose run() has
\* ended has run the smallest number n >= 1 of cycles such that the elapsed
\* time at the end of cycle n is at least the duration, each of them to its
\* end.
C34_CyclesUntilDuration ==
    \A t \in Threads :
        /\ InCycle(t) => elapsed_time[t] < duration
        /\ Ended(t) => StoppedAtDuration(t)

\* The same for the threads that left the loop by its test.
CyclesUntilDurationOnReturn ==
    \A t \in Threads :
        /\ InCycle(t) => elapsed_time[t] < duration
        /\ tpc[t] \in {"exit", "done"} => StoppedAtDuration(t)

=============================================================================
